---- MODULE Spec2Model ----
(***************************************************************************)
(* A model of kriyip/https-proxy-tunnel.                                   *)
(*                                                                         *)
(* Part I  : the name-resolution cache, src/src/dns_resolver.rs            *)
(*           (DNSResolver: check_cache, update_cache,                      *)
(*           cleanup_expired_records, resolve_domain), run by a set of     *)
(*           concurrently scheduled tasks over a monotonic clock.          *)
(* Part II : the connection relay, src/src/tunnel.rs (Tunnel::run,         *)
(*           handle_tcp, handle_http_connect, parse_http_connect_request,  *)
(*           relay_data) together with clients and the echo server of the  *)
(*           test module.                                                  *)
(***************************************************************************)
EXTENDS Integers, Sequences, FiniteSets, TLC

(***************************************************************************)
(* Bounds of the model.                                                    *)
(***************************************************************************)
\* concurrently running tasks that use the resolver; also the number of names
NumTasks == 2
\* API calls the tasks start, all together
MaxCalls == 3
\* last instant of the monotonic clock
MaxTime == 2
\* DNSResolver::new(1): the ttl, in clock units, of test_cache_hit
TTL == 1

Tasks == 1..NumTasks
Names == 1..NumTasks

\* address lists the upstream service may answer with (Ok(<<>>) is an empty answer)
IpLists == {<<"a">>, <<"b", "a">>, <<>>}

VARIABLES
  \* ---- DNSResolver ----
  records,     \* HashMap<String, DNSRecord>: a function on the keys present
  ttl,         \* DNSResolver.ttl
  now,         \* Instant::now()
  \* ---- the tasks calling the resolver ----
  pc,          \* where each task stands in its current call
  domain,      \* the argument of the current call
  ret,         \* what resolve_domain returned to the task
  chk,         \* what check_cache returned to the task
  ncalls,      \* calls started so far
  lock,        \* RwLock: the guard each task holds, "none", "read" or "write"
  \* ---- history (observations used to state the properties) ----
  lastUpdate,  \* per name: the instant of the last update_cache, -1 if none
  h            \* per task: observations about the current call

cacheVars == <<records, ttl, now, pc, domain, ret, chk, ncalls, lock, lastUpdate, h>>

(***************************************************************************)
(* The connections of the relay (Part II): bounds, bytes, clients, state    *)
(***************************************************************************)
\* client connections
MaxConns == 2
\* let mut buffer = [0; 1024]
BufferSize == 1024

Conns == 1..MaxConns

\* Bytes are modelled by symbols: a symbol stands for the bytes of one lexical
\* unit of the first PDU ("ip" for a dotted quad, "port" for a decimal port,
\* "CONNECT" and "HTTP/1.1" for those words), for one separator byte, for one
\* payload byte ("x", "y"), or for a byte that is not valid UTF-8 ("xFF").
IpLiterals == {"ip", "ipx"}
PortLiterals == {"port"}
Whitespace == {" ", "\t", "\r", "\n"}

\* the echo server of the tests listens on ip:port; nothing listens on ipx:port
Addr == <<"ip", ":", "port">>
DeadAddr == <<"ipx", ":", "port">>
Payload == <<"x", "y">>
ConnectRequest(a) == <<"CONNECT", " ">> \o a \o <<" ", "HTTP/1.1", "\r", "\n", "\r", "\n">>
\* b"HTTP/1.1 200 Connection Established\r\n\r\n"
Response == <<"HTTP/1.1 200 Connection Established\r\n\r\n">>

\* what a client writes, one write_all per element, and whether it then closes
Scenarios ==
  [raw_nl   |-> [writes |-> <<Addr \o <<"\n">>, Payload>>, closes |-> FALSE],
   raw      |-> [writes |-> <<Addr, Payload>>, closes |-> FALSE],
   connect  |-> [writes |-> <<ConnectRequest(Addr), Payload>>, closes |-> FALSE],
   garbage  |-> [writes |-> << <<"x">> >>, closes |-> FALSE],
   no_token |-> [writes |-> << <<"CONNECT", "\r", "\n">> >>, closes |-> FALSE],
   dead     |-> [writes |-> << DeadAddr >>, closes |-> FALSE],
   connect_dead |-> [writes |-> << ConnectRequest(DeadAddr) >>, closes |-> FALSE],
   non_utf8 |-> [writes |-> << <<"xFF">> >>, closes |-> FALSE],
   raw_close |-> [writes |-> <<Addr, Payload>>, closes |-> TRUE],
   empty    |-> [writes |-> << >>, closes |-> TRUE]]

ScenarioNames == DOMAIN Scenarios

VARIABLES
  \* ---- Tunnel::run ----
  run,        \* "accepting", or "returned_err" once run() has returned
  lastAccept, \* the result of the last self.listener.accept().await
  \* ---- one client per connection ----
  kind,       \* the scenario the client follows ("none": not connected)
  toSend,     \* what the client has still to write
  cEOF,       \* the client has closed its write side
  recv,       \* the bytes the client has received
  \* ---- the connection's handler ----
  via,        \* the function handling the connection
  hpc,        \* "none", "read", "dial", "respond", "relay", "done"
  hres,       \* how the handler ended
  c2p,        \* bytes written by the client, not yet read by the handler
  first,      \* &buffer[..n] of the handler's first read
  dest,       \* the destination the handler parsed
  dialed,     \* TcpStream::connect has been called
  csock,      \* client_socket: "none", "open", "closed"
  \* ---- the outbound connection and the echo server behind it ----
  tsock,      \* "none", "open", "closed" (dropped by the handler)
  echo,       \* the server's socket: "none", "reading", "dropped"
  p2t,        \* bytes written to the target, not yet read by it
  t2p,        \* bytes written by the target, not yet read by the handler
  \* ---- history ----
  fwd,        \* every byte the handler has written to the outbound socket
  undrained   \* what each direction had still to relay when the relay ended

tunnelVars == <<run, lastAccept, kind, toSend, cEOF, recv, via, hpc, hres, c2p,
                first, dest, dialed, csock, tsock, echo, p2t, t2p, fwd, undrained>>

vars == <<cacheVars, tunnelVars>>

(***************************************************************************)
(* Option<Vec<IpAddr>> and io::Result<Vec<IpAddr>>                         *)
(***************************************************************************)
None == [some |-> FALSE, ip |-> <<>>]
Some(v) == [some |-> TRUE, ip |-> v]

NoRet == [kind |-> "none", ip |-> <<>>]
Ok(v) == [kind |-> "Ok", ip |-> v]
Err == [kind |-> "Err", ip |-> <<>>]

(***************************************************************************)
(* DNSResolver's operations on the map                                     *)
(***************************************************************************)
check_cache(recs, d, t) ==
  IF d \in DOMAIN recs /\ recs[d].valid_until > t
    THEN Some(recs[d].ip)
    ELSE None

\* an update that forgets to add the ttl
update_cache_no_ttl(recs, d, ip, t, dur) ==
  [n \in DOMAIN recs \cup {d} |->
     IF n = d THEN [ip |-> ip, valid_until |-> t] ELSE recs[n]]

\* an update that rebuilds the map around the new entry
update_cache_rebuild(recs, d, ip, t, dur) ==
  [n \in {d} |-> [ip |-> ip, valid_until |-> t + dur]]

\* an update that adds the new addresses to those of the entry it finds
update_cache_merge(recs, d, ip, t, dur) ==
  [n \in DOMAIN recs \cup {d} |->
     IF n = d
       THEN [ip |-> (IF d \in DOMAIN recs THEN recs[d].ip ELSE <<>>) \o ip,
             valid_until |-> t + dur]
       ELSE recs[n]]

\* an update that leaves an entry it finds as it is (entry().or_insert)
update_cache_keep_first(recs, d, ip, t, dur) ==
  [n \in DOMAIN recs \cup {d} |->
     IF n = d /\ d \notin DOMAIN recs THEN [ip |-> ip, valid_until |-> t + dur]
     ELSE recs[n]]

update_cache(recs, d, ip, t, dur) ==
  [n \in DOMAIN recs \cup {d} |->
     IF n = d THEN [ip |-> ip, valid_until |-> t + dur] ELSE recs[n]]

\* a sweep that also removes the entries that will expire within a time unit
cleanup_expired_eager(recs, t) ==
  [n \in {m \in DOMAIN recs : recs[m].valid_until > t + 1} |-> recs[n]]

\* a sweep that keeps an entry at the very instant it expires
cleanup_expired_late(recs, t) ==
  [n \in {m \in DOMAIN recs : recs[m].valid_until >= t} |-> recs[n]]

cleanup_expired_records(recs, t) ==
  [n \in {m \in DOMAIN recs : recs[m].valid_until > t} |-> recs[n]]

\* caching every successful answer, the empty one too
ShouldCacheAlways(ips) == TRUE

\* the test inverted: only the empty answer is cached
ShouldCacheInverted(ips) == ips = <<>>

\* resolve_domain caches only a non-empty answer
ShouldCache(ips) == ips # <<>>

(***************************************************************************)
(* The RwLock around the map.  A guard is taken by records.read() or       *)
(* records.write() and dropped at the end of the function that took it;    *)
(* none of these functions awaits while it holds its guard.                *)
(***************************************************************************)
\* self.records.read() returns at once unless a writer holds the lock
can_read(l, t) == \A u \in Tasks : l[u] # "write"

\* self.records.write() returns at once unless some guard is alive
can_write(l, t) == \A u \in Tasks : l[u] = "none"

read_guard(l, t) == [l EXCEPT ![t] = "read"]
write_guard(l, t) == [l EXCEPT ![t] = "write"]
drop_guard(l, t) == [l EXCEPT ![t] = "none"]

\* a check_cache whose read guard outlives the function
lock_after_check_cache_kept(l, t) == read_guard(l, t)

\* the lock once check_cache has returned: its guard `records` is a local
lock_after_check_cache(l, t) == drop_guard(read_guard(l, t), t)

\* the lock once update_cache has returned
lock_after_update_cache(l, t) == drop_guard(write_guard(l, t), t)

\* the lock once cleanup_expired_records has returned
lock_after_cleanup(l, t) == drop_guard(write_guard(l, t), t)

(***************************************************************************)
(* History                                                                 *)
(***************************************************************************)
\*   expired  : when the call consulted the map, ttl had elapsed since the last
\*              update of its name
\*   at       : the instant of the call's cleanup pass
\*   evicted  : the call's cleanup pass changed the map
\*   upstream : the call reached the upstream service
\*   wrote    : the call changed the map after its upstream lookup
\*   quiet    : no other task has written the map since resolve_domain returned
\*   winEnd   : the end of the TTL window of what resolve_domain returned
\*   follows, inWin, afterAll : check_cache followed the task's resolve_domain,
\*              within that window, after every task's resolve_domain had returned
H0 == [expired |-> FALSE, at |-> 0, evicted |-> FALSE, upstream |-> FALSE, wrote |-> FALSE,
       quiet |-> FALSE, winEnd |-> 0, follows |-> FALSE, inWin |-> FALSE,
       afterAll |-> FALSE]

\* ttl or more has elapsed since the last update_cache of name n
Expired(n) == lastUpdate[n] >= 0 /\ now >= lastUpdate[n] + ttl

\* task t writes the map: a task that has its result is no longer undisturbed
Disturb(hh, t) ==
  [u \in Tasks |->
     IF u # t /\ pc[u] = "returned" THEN [hh[u] EXCEPT !.quiet = FALSE] ELSE hh[u]]

\* a failed lookup that caches a negative answer
OnLookupErrNegative(recs, d, t, dur) == update_cache(recs, d, <<>>, t, dur)

\* Err(err) => Err(Error::new(ErrorKind::Other, err)): no access to the map
OnLookupErr(recs, d, t, dur) == recs

CacheInit ==
  /\ records = <<>>
  /\ ttl = TTL
  /\ now = 0
  /\ pc = [t \in Tasks |-> "idle"]
  /\ domain = [t \in Tasks |-> 1]
  /\ ret = [t \in Tasks |-> NoRet]
  /\ chk = [t \in Tasks |-> None]
  /\ ncalls = 0
  /\ lock = [t \in Tasks |-> "none"]
  /\ lastUpdate = [n \in Names |-> -1]
  /\ h = [t \in Tasks |-> H0]

(***************************************************************************)
(* resolve_domain, one action per step between two suspension points or    *)
(* lock acquisitions.  Every access to the map happens under the RwLock,   *)
(* without an await inside, so it is one atomic step.                      *)
(***************************************************************************)
\* a task calls resolve_domain(d)
CallResolve(t, d) ==
  /\ pc[t] = "idle"
  /\ ncalls < MaxCalls
  /\ pc' = [pc EXCEPT ![t] = "cleanup"]
  /\ domain' = [domain EXCEPT ![t] = d]
  /\ ncalls' = ncalls + 1
  /\ ret' = [ret EXCEPT ![t] = NoRet]
  /\ chk' = [chk EXCEPT ![t] = None]
  /\ h' = [h EXCEPT ![t] = H0]
  /\ UNCHANGED <<records, ttl, now, lock, lastUpdate>>
  /\ UNCHANGED tunnelVars

\* self.cleanup_expired_records().await
ResolveCleanup(t) ==
  /\ pc[t] = "cleanup"
  /\ can_write(lock, t)
  /\ records' = cleanup_expired_records(records, now)
  /\ lock' = lock_after_cleanup(lock, t)
  /\ pc' = [pc EXCEPT ![t] = "check"]
  /\ h' = [Disturb(h, t) EXCEPT ![t].evicted = (records' # records), ![t].at = now]
  /\ UNCHANGED <<ttl, now, domain, ret, chk, ncalls, lastUpdate>>
  /\ UNCHANGED tunnelVars

\* if let Some(ip) = self.check_cache(domain) { return Ok(ip); }
ResolveCheck(t) ==
  /\ pc[t] = "check"
  /\ can_read(lock, t)
  /\ lock' = lock_after_check_cache(lock, t)
  /\ LET r == check_cache(records, domain[t], now) IN
       IF r.some
         THEN /\ ret' = [ret EXCEPT ![t] = Ok(r.ip)]
              /\ pc' = [pc EXCEPT ![t] = "returned"]
              /\ h' = [h EXCEPT ![t].quiet = TRUE,
                                ![t].expired = Expired(domain[t]),
                                ![t].winEnd = records[domain[t]].valid_until]
         ELSE /\ pc' = [pc EXCEPT ![t] = "lookup"]
              /\ h' = [h EXCEPT ![t].expired = Expired(domain[t])]
              /\ UNCHANGED ret
  /\ UNCHANGED <<records, ttl, now, domain, chk, ncalls, lastUpdate>>
  /\ UNCHANGED tunnelVars

\* self.tokio_resolver.lookup_ip(domain).await answers Ok(ips)
LookupOk(t, ips) ==
  /\ pc[t] = "lookup"
  /\ IF ShouldCache(ips)
       THEN /\ can_write(lock, t)
            /\ records' = update_cache(records, domain[t], ips, now, ttl)
            /\ lock' = lock_after_update_cache(lock, t)
            /\ lastUpdate' = [lastUpdate EXCEPT ![domain[t]] = now]
            /\ h' = [Disturb(h, t) EXCEPT ![t].upstream = TRUE, ![t].quiet = TRUE,
                                          ![t].winEnd = now + ttl,
                                          ![t].wrote = (records' # records)]
       ELSE /\ UNCHANGED <<records, lock, lastUpdate>>
            /\ h' = [h EXCEPT ![t].upstream = TRUE, ![t].quiet = TRUE,
                              ![t].winEnd = now + ttl]
  /\ ret' = [ret EXCEPT ![t] = Ok(ips)]
  /\ pc' = [pc EXCEPT ![t] = "returned"]
  /\ UNCHANGED <<ttl, now, domain, chk, ncalls>>
  /\ UNCHANGED tunnelVars

\* self.tokio_resolver.lookup_ip(domain).await answers Err(err)
LookupErr(t) ==
  /\ pc[t] = "lookup"
  /\ ret' = [ret EXCEPT ![t] = Err]
  /\ pc' = [pc EXCEPT ![t] = "returned"]
  /\ records' = OnLookupErr(records, domain[t], now, ttl)
  /\ h' = [h EXCEPT ![t].upstream = TRUE, ![t].quiet = TRUE,
                    ![t].wrote = (records' # records)]
  /\ UNCHANGED <<ttl, now, domain, chk, ncalls, lock, lastUpdate>>
  /\ UNCHANGED tunnelVars

\* a task calls check_cache(d): on its own, or right after its resolve_domain(d)
CallCheck(t, d) ==
  /\ \/ pc[t] = "idle" /\ ncalls < MaxCalls
     \/ pc[t] = "returned" /\ d = domain[t]
  /\ can_read(lock, t)
  /\ lock' = lock_after_check_cache(lock, t)
  /\ chk' = [chk EXCEPT ![t] = check_cache(records, d, now)]
  /\ pc' = [pc EXCEPT ![t] = "checked"]
  /\ domain' = [domain EXCEPT ![t] = d]
  /\ ncalls' = IF pc[t] = "idle" THEN ncalls + 1 ELSE ncalls
  /\ h' = [h EXCEPT ![t].follows = (pc[t] = "returned"),
                    ![t].inWin = (now < h[t].winEnd),
                    ![t].afterAll = (\A u \in Tasks : pc[u] \in {"returned", "checked"}),
                    ![t].expired = Expired(d)]
  /\ UNCHANGED <<records, ttl, now, ret, lastUpdate>>
  /\ UNCHANGED tunnelVars

\* a task calls cleanup_expired_records() on its own
CallCleanup(t) ==
  /\ pc[t] = "idle"
  /\ ncalls < MaxCalls
  /\ can_write(lock, t)
  /\ records' = cleanup_expired_records(records, now)
  /\ lock' = lock_after_cleanup(lock, t)
  /\ pc' = [pc EXCEPT ![t] = "cleaned"]
  /\ ncalls' = ncalls + 1
  /\ h' = [Disturb(h, t) EXCEPT ![t].evicted = (records' # records), ![t].at = now]
  /\ UNCHANGED <<ttl, now, domain, ret, chk, lastUpdate>>
  /\ UNCHANGED tunnelVars

\* the task drops the results of its call and is ready for the next one
TaskDone(t) ==
  /\ pc[t] \in {"returned", "checked", "cleaned"}
  /\ ncalls < MaxCalls
  /\ pc' = [pc EXCEPT ![t] = "idle"]
  /\ domain' = [domain EXCEPT ![t] = 1]
  /\ ret' = [ret EXCEPT ![t] = NoRet]
  /\ chk' = [chk EXCEPT ![t] = None]
  /\ h' = [h EXCEPT ![t] = H0]
  /\ UNCHANGED <<records, ttl, now, ncalls, lock, lastUpdate>>
  /\ UNCHANGED tunnelVars

\* the monotonic clock advances
Tick ==
  /\ now < MaxTime
  /\ now' = now + 1
  /\ UNCHANGED <<records, ttl, pc, domain, ret, chk, ncalls, lock, lastUpdate, h>>
  /\ UNCHANGED tunnelVars

CacheNext ==
  \/ \E t \in Tasks, d \in Names : CallResolve(t, d)
  \/ \E t \in Tasks : ResolveCleanup(t)
  \/ \E t \in Tasks : ResolveCheck(t)
  \/ \E t \in Tasks, ips \in IpLists : LookupOk(t, ips)
  \/ \E t \in Tasks : LookupErr(t)
  \/ \E t \in Tasks, d \in Names : CallCheck(t, d)
  \/ \E t \in Tasks : CallCleanup(t)
  \/ \E t \in Tasks : TaskDone(t)
  \/ Tick

(***************************************************************************)
(* Part II: the connection relay, src/src/tunnel.rs                        *)
(***************************************************************************)
Min(a, b) == IF a < b THEN a ELSE b
Prefix(s, n) == SubSeq(s, 1, n)

\* a read that leaves in the socket the bytes it returns (peek)
Suffix_peek(s, n) == s

Suffix(s, n) == SubSeq(s, n + 1, Len(s))

(***************************************************************************)
(* Parsing the first PDU                                                   *)
(***************************************************************************)
\* std::str::from_utf8(&buffer[..n]).is_ok()
from_utf8_ok(b) == \A i \in 1..Len(b) : b[i] # "xFF"

\* a parser of socket addresses that stops at the end of the port
parse_socket_addr_lenient(str) ==
  IF Len(str) >= 3 /\ str[1] \in IpLiterals /\ str[2] = ":" /\ str[3] \in PortLiterals
    THEN [ok |-> TRUE, addr |-> Prefix(str, 3)]
    ELSE [ok |-> FALSE, addr |-> <<>>]

\* destination.parse::<SocketAddr>(): an IP literal, a colon, a port, and then
\* the end of the input; nothing is trimmed
parse_socket_addr(str) ==
  IF Len(str) < 1 \/ str[1] \notin IpLiterals THEN [ok |-> FALSE, addr |-> <<>>]
  ELSE IF Len(str) < 2 \/ str[2] # ":" THEN [ok |-> FALSE, addr |-> <<>>]
  ELSE IF Len(str) < 3 \/ str[3] \notin PortLiterals THEN [ok |-> FALSE, addr |-> <<>>]
  ELSE IF Len(str) > 3 THEN [ok |-> FALSE, addr |-> <<>>]
  ELSE [ok |-> TRUE, addr |-> str]

\* request.lines().next(): None for the empty string, else the text up to the
\* first "\n", without the "\r" that may precede it
RECURSIVE UpToNewline(_)
UpToNewline(str) ==
  IF str = <<>> \/ Head(str) = "\n" THEN <<>>
  ELSE <<Head(str)>> \o UpToNewline(Tail(str))

first_line(str) ==
  LET l == UpToNewline(str) IN
    IF Len(l) < Len(str) /\ l # <<>> /\ l[Len(l)] = "\r"
      THEN Prefix(l, Len(l) - 1)
      ELSE l

\* line.split_whitespace(): the maximal runs of non-whitespace, in order
RECURSIVE split_whitespace(_, _)
split_whitespace(line, cur) ==
  IF line = <<>> THEN (IF cur = <<>> THEN <<>> ELSE <<cur>>)
  ELSE IF Head(line) \in Whitespace
    THEN (IF cur = <<>> THEN <<>> ELSE <<cur>>) \o split_whitespace(Tail(line), <<>>)
    ELSE split_whitespace(Tail(line), Append(cur, Head(line)))

\* a request parser that takes the first token when there is no second one
parse_http_connect_request_first(request) ==
  IF request = <<>> THEN [ok |-> FALSE, addr |-> <<>>]
  ELSE LET toks == split_whitespace(first_line(request), <<>>) IN
         IF Len(toks) >= 1
           THEN [ok |-> TRUE, addr |-> toks[Min(2, Len(toks))]]
           ELSE [ok |-> FALSE, addr |-> <<>>]

\* request.lines().next().and_then(|line| line.split_whitespace().nth(1))
parse_http_connect_request(request) ==
  IF request = <<>> THEN [ok |-> FALSE, addr |-> <<>>]
  ELSE LET toks == split_whitespace(first_line(request), <<>>) IN
         IF Len(toks) >= 2
           THEN [ok |-> TRUE, addr |-> toks[2]]
           ELSE [ok |-> FALSE, addr |-> <<>>]

\* a network in which every dial succeeds
connect_ok_any(target) == TRUE

\* TcpStream::connect(target): the connection is established exactly when the
\* target names the address the echo server listens on
connect_ok(target) == target = Addr

\* a dial failure that is reported to the client of a CONNECT request
dial_error_reply_status(v) ==
  IF v = "handle_http_connect" THEN <<"HTTP/1.1 502 Bad Gateway\r\n\r\n">> ELSE <<>>

\* TcpStream::connect(..).await? returns the error to the caller of the handler:
\* neither handler writes anything to the client on that path
dial_error_reply(v) == <<>>

\* a handler that relays right after the dial, in both modes
after_dial_relay(v) == "relay"

\* what follows a successful dial: handle_tcp goes on to relay, and
\* handle_http_connect first writes its response
after_dial(v) == IF v = "handle_tcp" THEN "relay" ELSE "respond"

(***************************************************************************)
(* Tunnel::run                                                             *)
(***************************************************************************)
\* a loop that awaits each handler and propagates its error
after_handler_propagate(r, res) == IF res = "Ok" THEN r ELSE "returned_err"

\* tokio::spawn(async move { if let Err(e) = handle_tcp(socket).await {
\* eprintln!(..) } }): the handler's result is printed, the loop is not told
after_handler(r, res) == r

TunnelInit ==
  /\ run = "accepting"
  /\ lastAccept = "none"
  /\ kind = [c \in Conns |-> "none"]
  /\ toSend = [c \in Conns |-> <<>>]
  /\ cEOF = [c \in Conns |-> FALSE]
  /\ recv = [c \in Conns |-> <<>>]
  /\ via = [c \in Conns |-> "none"]
  /\ hpc = [c \in Conns |-> "none"]
  /\ hres = [c \in Conns |-> "none"]
  /\ c2p = [c \in Conns |-> <<>>]
  /\ first = [c \in Conns |-> <<>>]
  /\ dest = [c \in Conns |-> <<>>]
  /\ dialed = [c \in Conns |-> FALSE]
  /\ csock = [c \in Conns |-> "none"]
  /\ tsock = [c \in Conns |-> "none"]
  /\ echo = [c \in Conns |-> "none"]
  /\ p2t = [c \in Conns |-> <<>>]
  /\ t2p = [c \in Conns |-> <<>>]
  /\ fwd = [c \in Conns |-> <<>>]
  /\ undrained = [c \in Conns |-> [c2t |-> <<>>, t2c |-> <<>>]]

\* the handler of connection c returns res: the task ends, client_socket and
\* the outbound socket are dropped, and what they had not read is discarded
Finish(c, res) ==
  /\ hpc' = [hpc EXCEPT ![c] = "done"]
  /\ hres' = [hres EXCEPT ![c] = res]
  /\ csock' = [csock EXCEPT ![c] = "closed"]
  /\ tsock' = [tsock EXCEPT ![c] = IF @ = "open" THEN "closed" ELSE @]
  /\ c2p' = [c2p EXCEPT ![c] = <<>>]
  /\ t2p' = [t2p EXCEPT ![c] = <<>>]
  /\ undrained' = [undrained EXCEPT ![c] =
                     IF hpc[c] = "relay" THEN [c2t |-> c2p[c], t2c |-> t2p[c]] ELSE @]
  /\ run' = after_handler(run, res)

(***************************************************************************)
(* The clients                                                             *)
(***************************************************************************)
\* a client connects to the listening address and will follow scenario k
ClientConnect(c, k) ==
  /\ kind[c] = "none"
  /\ \A d \in Conns : d < c => kind[d] # "none"
  /\ kind' = [kind EXCEPT ![c] = k]
  /\ toSend' = [toSend EXCEPT ![c] = Scenarios[k].writes]
  /\ UNCHANGED <<run, lastAccept, cEOF, recv, via, hpc, hres, undrained, c2p,
                 first, dest, dialed, csock, tsock, echo, p2t, fwd, t2p>>
  /\ UNCHANGED cacheVars

\* client.write_all(..): the bytes are on their way to the proxy
ClientWrite(c) ==
  /\ kind[c] # "none"
  /\ toSend[c] # <<>>
  /\ csock[c] # "closed"
  /\ c2p' = [c2p EXCEPT ![c] = @ \o Head(toSend[c])]
  /\ toSend' = [toSend EXCEPT ![c] = Tail(@)]
  /\ UNCHANGED <<run, lastAccept, kind, cEOF, recv, via, hpc, hres, undrained,
                 first, dest, dialed, csock, tsock, echo, p2t, fwd, t2p>>
  /\ UNCHANGED cacheVars

\* the client closes its write side
ClientClose(c) ==
  /\ kind[c] # "none"
  /\ Scenarios[kind[c]].closes
  /\ toSend[c] = <<>>
  /\ ~cEOF[c]
  /\ cEOF' = [cEOF EXCEPT ![c] = TRUE]
  /\ UNCHANGED <<run, lastAccept, kind, toSend, recv, via, hpc, hres, undrained,
                 c2p, first, dest, dialed, csock, tsock, echo, p2t, fwd, t2p>>
  /\ UNCHANGED cacheVars

(***************************************************************************)
(* Tunnel::run and the handlers                                            *)
(***************************************************************************)
\* let (socket, _) = self.listener.accept().await?; tokio::spawn(handle_tcp(socket))
Accept(c) ==
  /\ run = "accepting"
  /\ kind[c] # "none"
  /\ hpc[c] = "none"
  /\ lastAccept' = "Ok"
  /\ via' = [via EXCEPT ![c] = "handle_tcp"]
  /\ hpc' = [hpc EXCEPT ![c] = "read"]
  /\ csock' = [csock EXCEPT ![c] = "open"]
  /\ UNCHANGED <<run, kind, toSend, cEOF, recv, hres, undrained, c2p, first,
                 dest, dialed, tsock, echo, p2t, fwd, t2p>>
  /\ UNCHANGED cacheVars

\* self.listener.accept().await? fails: run() returns the error
AcceptFail ==
  /\ run = "accepting"
  /\ lastAccept' = "Err"
  /\ run' = "returned_err"
  /\ UNCHANGED <<kind, toSend, cEOF, recv, via, hpc, hres, undrained, c2p,
                 first, dest, dialed, csock, tsock, echo, p2t, fwd, t2p>>
  /\ UNCHANGED cacheVars

\* handle_http_connect(socket) is called on an established connection.  No
\* function of the repository calls it: Tunnel::run never does.
CallHandleHttpConnect(c) ==
  /\ kind[c] # "none"
  /\ hpc[c] = "none"
  /\ via' = [via EXCEPT ![c] = "handle_http_connect"]
  /\ hpc' = [hpc EXCEPT ![c] = "read"]
  /\ csock' = [csock EXCEPT ![c] = "open"]
  /\ UNCHANGED <<run, lastAccept, kind, toSend, cEOF, recv, hres, undrained,
                 c2p, first, dest, dialed, tsock, echo, p2t, fwd, t2p>>
  /\ UNCHANGED cacheVars

\* what handle_tcp does with the n > 0 bytes of its first read
handle_tcp_parse(c, buf) ==
  IF ~from_utf8_ok(buf) THEN
    /\ Finish(c, "InvalidData")
    /\ UNCHANGED dest
  ELSE IF ~parse_socket_addr(buf).ok THEN
    /\ Finish(c, "InvalidInput")
    /\ UNCHANGED dest
  ELSE
    /\ dest' = [dest EXCEPT ![c] = parse_socket_addr(buf).addr]
    /\ hpc' = [hpc EXCEPT ![c] = "dial"]
    /\ c2p' = [c2p EXCEPT ![c] = Suffix(c2p[c], Len(buf))]
    /\ UNCHANGED <<run, hres, undrained, csock, tsock, t2p>>

\* what handle_http_connect does with the bytes of its first read
handle_http_connect_parse(c, buf) ==
  IF ~from_utf8_ok(buf) THEN
    /\ Finish(c, "panic")
    /\ UNCHANGED dest
  ELSE IF ~parse_http_connect_request(buf).ok THEN
    /\ Finish(c, "InvalidData")
    /\ UNCHANGED dest
  ELSE
    /\ dest' = [dest EXCEPT ![c] = parse_http_connect_request(buf).addr]
    /\ hpc' = [hpc EXCEPT ![c] = "dial"]
    /\ c2p' = [c2p EXCEPT ![c] = Suffix(c2p[c], Len(buf))]
    /\ UNCHANGED <<run, hres, undrained, csock, tsock, t2p>>

\* let n = client_socket.read(&mut buffer).await?  with n > 0, and the parsing
\* that follows it without a suspension point.  The read returns what has
\* arrived, up to the size of the buffer; the bytes of one write_all of a client
\* arrive together, those of two writes together or one after the other.
FirstRead(c) ==
  /\ hpc[c] = "read"
  /\ c2p[c] # <<>>
  /\ LET n == Min(Len(c2p[c]), BufferSize) IN
       /\ first' = [first EXCEPT ![c] = Prefix(c2p[c], n)]
       /\ IF via[c] = "handle_tcp"
            THEN handle_tcp_parse(c, Prefix(c2p[c], n))
            ELSE handle_http_connect_parse(c, Prefix(c2p[c], n))
  /\ UNCHANGED <<lastAccept, kind, toSend, cEOF, recv, via, dialed, echo, p2t,
                 fwd>>
  /\ UNCHANGED cacheVars

\* the first read returns n = 0: the client closed before sending anything
FirstReadEOF(c) ==
  /\ hpc[c] = "read"
  /\ c2p[c] = <<>>
  /\ cEOF[c]
  /\ IF via[c] = "handle_tcp"
       THEN Finish(c, "Ok") /\ UNCHANGED dest
       ELSE handle_http_connect_parse(c, <<>>)
  /\ UNCHANGED <<lastAccept, kind, toSend, cEOF, recv, via, first, dialed, echo,
                 p2t, fwd>>
  /\ UNCHANGED cacheVars

\* TcpStream::connect(..).await?
Dial(c) ==
  /\ hpc[c] = "dial"
  /\ dialed' = [dialed EXCEPT ![c] = TRUE]
  /\ IF connect_ok(dest[c])
       THEN /\ tsock' = [tsock EXCEPT ![c] = "open"]
            /\ echo' = [echo EXCEPT ![c] = "reading"]
            /\ hpc' = [hpc EXCEPT ![c] = after_dial(via[c])]
            /\ UNCHANGED <<run, recv, hres, undrained, csock, c2p, t2p>>
       ELSE /\ Finish(c, "ConnectError")
            /\ recv' = [recv EXCEPT ![c] = @ \o dial_error_reply(via[c])]
            /\ UNCHANGED echo
  /\ UNCHANGED <<lastAccept, kind, toSend, cEOF, via, first, dest, p2t, fwd>>
  /\ UNCHANGED cacheVars

\* client_socket.write_all(b"HTTP/1.1 200 Connection Established\r\n\r\n").await?
Respond(c) ==
  /\ hpc[c] = "respond"
  /\ recv' = [recv EXCEPT ![c] = @ \o Response]
  /\ hpc' = [hpc EXCEPT ![c] = "relay"]
  /\ UNCHANGED <<run, lastAccept, kind, toSend, cEOF, via, hres, undrained, c2p,
                 first, dest, dialed, csock, tsock, echo, p2t, fwd, t2p>>
  /\ UNCHANGED cacheVars

\* client_socket.write_all(..).await? fails: the client is gone
RespondError(c) ==
  /\ hpc[c] = "respond"
  /\ Finish(c, "IoError")
  /\ UNCHANGED <<lastAccept, kind, toSend, cEOF, recv, via, first, dest, dialed,
                 echo, p2t, fwd>>
  /\ UNCHANGED cacheVars

\* io::copy(&mut client_reader, &mut server_writer) moves what has arrived
CopyClientToServer(c) ==
  /\ hpc[c] = "relay"
  /\ c2p[c] # <<>>
  /\ p2t' = [p2t EXCEPT ![c] = IF echo[c] = "reading" THEN @ \o c2p[c] ELSE @]
  /\ fwd' = [fwd EXCEPT ![c] = @ \o c2p[c]]
  /\ c2p' = [c2p EXCEPT ![c] = <<>>]
  /\ UNCHANGED <<run, lastAccept, kind, toSend, cEOF, recv, via, hpc, hres,
                 undrained, first, dest, dialed, csock, tsock, echo, t2p>>
  /\ UNCHANGED cacheVars

\* io::copy(&mut server_reader, &mut client_writer) moves what has arrived
CopyServerToClient(c) ==
  /\ hpc[c] = "relay"
  /\ t2p[c] # <<>>
  /\ recv' = [recv EXCEPT ![c] = @ \o t2p[c]]
  /\ t2p' = [t2p EXCEPT ![c] = <<>>]
  /\ UNCHANGED <<run, lastAccept, kind, toSend, cEOF, via, hpc, hres, undrained,
                 c2p, first, dest, dialed, csock, tsock, echo, p2t, fwd>>
  /\ UNCHANGED cacheVars

\* io::copy(&mut client_reader, ..) returns Ok at the client's end of file,
\* once it has copied everything that preceded it
client_to_server_done(c) == c2p[c] = <<>> /\ cEOF[c]

\* io::copy(&mut server_reader, ..) returns Ok at the target's end of file
server_to_client_done(c) == t2p[c] = <<>> /\ echo[c] = "dropped"

\* a handler that waits for both copies (join!)
join_both(a, b) == a /\ b

\* tokio::select!: completes as soon as one of its two branches has completed
select(a, b) == a \/ b

\* tokio::select!: the client-to-server copy is the first to finish, at the
\* client's end of file
ClientToServerEOF(c) ==
  /\ hpc[c] = "relay"
  /\ client_to_server_done(c)
  /\ select(client_to_server_done(c), server_to_client_done(c))
  /\ Finish(c, "Ok")
  /\ UNCHANGED <<lastAccept, kind, toSend, cEOF, recv, via, first, dest, dialed,
                 echo, p2t, fwd>>
  /\ UNCHANGED cacheVars

\* tokio::select!: the server-to-client copy is the first to finish, at the
\* target's end of file
ServerToClientEOF(c) ==
  /\ hpc[c] = "relay"
  /\ server_to_client_done(c)
  /\ select(client_to_server_done(c), server_to_client_done(c))
  /\ Finish(c, "Ok")
  /\ UNCHANGED <<lastAccept, kind, toSend, cEOF, recv, via, first, dest, dialed,
                 echo, p2t, fwd>>
  /\ UNCHANGED cacheVars

\* tokio::select!: one of the copies is the first to finish, with an I/O error
RelayError(c) ==
  /\ hpc[c] = "relay"
  /\ Finish(c, "IoError")
  /\ UNCHANGED <<lastAccept, kind, toSend, cEOF, recv, via, first, dest, dialed,
                 echo, p2t, fwd>>
  /\ UNCHANGED cacheVars

(***************************************************************************)
(* The echo server of the tests (start_mock_server)                        *)
(***************************************************************************)
\* socket.read(&mut buf) returns the n > 0 bytes that have arrived (vec![0; 1024]),
\* socket.write_all(&buf[..n]) sends them back, and the socket is dropped at the
\* end of the loop body
EchoRead(c) ==
  /\ echo[c] = "reading"
  /\ p2t[c] # <<>>
  /\ LET n == Min(Len(p2t[c]), BufferSize) IN
       t2p' = [t2p EXCEPT ![c] = IF tsock[c] = "open" THEN @ \o Prefix(p2t[c], n) ELSE @]
  /\ p2t' = [p2t EXCEPT ![c] = <<>>]
  /\ echo' = [echo EXCEPT ![c] = "dropped"]
  /\ UNCHANGED <<run, lastAccept, kind, toSend, cEOF, recv, via, hpc, hres,
                 undrained, c2p, first, dest, dialed, csock, tsock, fwd>>
  /\ UNCHANGED cacheVars

\* socket.read(&mut buf) returns 0 or an error: the proxy has closed
EchoEOF(c) ==
  /\ echo[c] = "reading"
  /\ p2t[c] = <<>>
  /\ tsock[c] = "closed"
  /\ echo' = [echo EXCEPT ![c] = "dropped"]
  /\ UNCHANGED <<run, lastAccept, kind, toSend, cEOF, recv, via, hpc, hres,
                 undrained, c2p, first, dest, dialed, csock, tsock, p2t, fwd,
                 t2p>>
  /\ UNCHANGED cacheVars

TunnelNext ==
  \/ \E c \in Conns, k \in ScenarioNames : ClientConnect(c, k)
  \/ \E c \in Conns : ClientWrite(c)
  \/ \E c \in Conns : ClientClose(c)
  \/ \E c \in Conns : Accept(c)
  \/ AcceptFail
  \/ \E c \in Conns : CallHandleHttpConnect(c)
  \/ \E c \in Conns : FirstRead(c)
  \/ \E c \in Conns : FirstReadEOF(c)
  \/ \E c \in Conns : Dial(c)
  \/ \E c \in Conns : Respond(c)
  \/ \E c \in Conns : RespondError(c)
  \/ \E c \in Conns : CopyClientToServer(c)
  \/ \E c \in Conns : CopyServerToClient(c)
  \/ \E c \in Conns : ClientToServerEOF(c)
  \/ \E c \in Conns : ServerToClientEOF(c)
  \/ \E c \in Conns : RelayError(c)
  \/ \E c \in Conns : EchoRead(c)
  \/ \E c \in Conns : EchoEOF(c)

Init == CacheInit /\ TunnelInit

\* the resolver's tasks; no connection is made
SpecCache == Init /\ [][CacheNext]_vars

\* the relay; no function of the repository passes a DNSResolver to it
SpecTunnel == Init /\ [][TunnelNext]_vars

\* the relay under the tokio scheduler: a handler task whose copy can make a
\* step, or whose select! can complete, is eventually polled
SpecTunnelFair ==
  /\ SpecTunnel
  /\ \A c \in Conns :
       /\ WF_vars(CopyClientToServer(c))
       /\ WF_vars(CopyServerToClient(c))
       /\ WF_vars(ClientToServerEOF(c))
       /\ WF_vars(ServerToClientEOF(c))


(***************************************************************************)
(* Properties of the cache                                                 *)
(***************************************************************************)
NonEmptyOk(r) == r.kind = "Ok" /\ r.ip # <<>>

\* task t has its resolve_domain result and then called check_cache for the same
\* name, no other task having written the map in between, within the TTL window
CheckedRightAfterResolve(t) ==
  /\ pc[t] = "checked"
  /\ h[t].follows
  /\ h[t].quiet
  /\ h[t].inWin

\* C3 as stated: a resolve(name) that returns an address list, immediately
\* followed by check(name) within the TTL window, gets the same list from both.
C3_ResolveThenCheckSame_AsStated ==
  \A t \in Tasks :
    CheckedRightAfterResolve(t) /\ ret[t].kind = "Ok" => chk[t] = Some(ret[t].ip)

\* C3 (amended): a resolve(name) that returns a non-empty address list,
\* immediately followed by check(name) within the TTL window (no other cache
\* write in between), gets the same list from both calls.
C3_ResolveThenCheckSame ==
  \A t \in Tasks :
    CheckedRightAfterResolve(t) /\ NonEmptyOk(ret[t]) => chk[t] = Some(ret[t].ip)

C3_Witness ==
  \E t \in Tasks :
    /\ CheckedRightAfterResolve(t)
    /\ NonEmptyOk(ret[t])
    /\ h[t].upstream
    /\ chk[t] = Some(ret[t].ip)

\* the parts of C4 that hold as stated: after ttl has elapsed since the last
\* update of a name, check_cache returns nothing for it, an explicit
\* cleanup_expired_records leaves no such entry in the map, and a resolve_domain
\* that finds the name in that condition reaches the upstream service
C4_Expiry ==
  /\ \A t \in Tasks : pc[t] = "checked" /\ h[t].expired => ~chk[t].some
  /\ \A t \in Tasks : pc[t] = "cleaned" =>
       \A n \in DOMAIN records :
         lastUpdate[n] + ttl > h[t].at \/ lastUpdate[n] >= h[t].at
  /\ \A t \in Tasks : pc[t] = "returned" /\ h[t].expired => h[t].upstream

\* C4 as stated: ... and a resolve(name) after expiry goes to the upstream
\* service and re-creates the entry.
C4_TTLExpiry_AsStated ==
  /\ C4_Expiry
  /\ \A t \in Tasks :
       pc[t] = "returned" /\ h[t].expired /\ h[t].quiet => domain[t] \in DOMAIN records

\* C4 (amended): once at least ttl has elapsed since the last update of a name
\* and no later update has happened, check(name) returns nothing and an explicit
\* cleanup_expired() removes the entry; a resolve(name) after that goes to the
\* upstream service, and re-creates the entry when the lookup succeeds with a
\* non-empty result.
C4_TTLExpiry ==
  /\ C4_Expiry
  /\ \A t \in Tasks :
       pc[t] = "returned" /\ h[t].expired /\ h[t].quiet /\ NonEmptyOk(ret[t]) =>
         /\ domain[t] \in DOMAIN records
         /\ records[domain[t]].ip = ret[t].ip
         /\ records[domain[t]].valid_until = h[t].winEnd

C4_Witness ==
  \E t, u \in Tasks :
    /\ pc[t] = "returned" /\ h[t].expired /\ h[t].quiet /\ NonEmptyOk(ret[t])
    /\ domain[t] \in DOMAIN records
    /\ pc[u] = "cleaned" /\ h[u].evicted

\* the N calls made so far on the cache that started empty are one
\* resolve_domain of the same name n by each of the N tasks, and all have returned
SameNameDone(n) ==
  /\ ncalls = NumTasks
  /\ \A t \in Tasks : pc[t] = "returned" /\ domain[t] = n

\* the answers of the successful upstream lookups the calls made
LookupResults == {ret[t].ip : t \in {u \in Tasks : h[u].upstream /\ ret[u].kind = "Ok"}}

OneEntryFromALookup(n) ==
  /\ \A t \in Tasks : ret[t].kind = "Ok"
  /\ DOMAIN records = {n}
  /\ records[n].ip \in LookupResults

\* C5 as stated: N concurrent resolve calls for the same uncached name each
\* succeed, and afterwards the cache holds exactly one entry, for that name,
\* with the addresses of one of the successful lookups.
C5_SameNameConcurrent_AsStated ==
  \A n \in Names : SameNameDone(n) => OneEntryFromALookup(n)

\* C5 (amended): when every upstream lookup made by N concurrent resolve calls
\* for the same uncached name succeeds with a non-empty result, each call
\* succeeds under every interleaving, and after all have completed the cache
\* holds exactly one entry, for that name, whose addresses equal the result of
\* one of those lookups (not necessarily the first).
C5_SameNameConcurrent ==
  \A n \in Names :
    SameNameDone(n) /\ (\A t \in Tasks : h[t].upstream => NonEmptyOk(ret[t]))
      => OneEntryFromALookup(n)

\* all calls went upstream with different answers and the entry is the second's
C5_Witness ==
  \E n \in Names :
    /\ SameNameDone(n)
    /\ \A t \in Tasks : h[t].upstream /\ NonEmptyOk(ret[t])
    /\ \E t, u \in Tasks : ret[t].ip # ret[u].ip
    /\ OneEntryFromALookup(n)

\* the N calls made so far on the cache that started empty are one
\* resolve_domain by each of the N tasks, for N distinct names, and all have
\* returned (and may have gone on to check_cache their name)
DistinctNamesDone ==
  /\ ncalls = NumTasks
  /\ \A t \in Tasks :
       \/ pc[t] = "returned"
       \/ pc[t] = "checked" /\ h[t].follows
  /\ \A t, u \in Tasks : t # u => domain[t] # domain[u]

NEntriesAndChecksAgree ==
  /\ Cardinality(DOMAIN records) = NumTasks
  /\ \A t \in Tasks : pc[t] = "checked" /\ h[t].afterAll => chk[t] = Some(ret[t].ip)

\* C6 as stated: N concurrent resolve calls for N distinct uncached names all
\* complete and afterwards the cache holds N entries, check(name_i) returning
\* what the call for name_i returned.
C6_DistinctNamesConcurrent_AsStated ==
  DistinctNamesDone => NEntriesAndChecksAgree

\* C6 (amended): N concurrent resolve calls for N distinct uncached names all
\* complete, under every interleaving; when each of them returned a non-empty
\* address list and none of the entries has reached its expiry, the cache holds
\* exactly N entries, one per name, and check(name_i) returns the address list
\* that the call for name_i returned.
C6_DistinctNamesConcurrent ==
  DistinctNamesDone /\ (\A t \in Tasks : NonEmptyOk(ret[t]) /\ now < h[t].winEnd)
    => NEntriesAndChecksAgree

C6_Witness ==
  /\ DistinctNamesDone
  /\ \A t \in Tasks : NonEmptyOk(ret[t]) /\ now < h[t].winEnd
  /\ \A t \in Tasks : pc[t] = "checked" /\ h[t].afterAll
  /\ NEntriesAndChecksAgree

\* C7 as stated: a resolve(name) whose upstream lookup fails returns an error
\* and leaves the map as it was before the call.
C7_FailedLookupNoChange_AsStated ==
  \A t \in Tasks :
    pc[t] = "returned" /\ ret[t] = Err => ~h[t].evicted /\ ~h[t].wrote

\* C7 (amended): a resolve(name) whose upstream lookup fails returns a
\* ResolutionError to its caller and writes nothing to the cache: no entry is
\* inserted or altered by the call (its only effect on the map is the initial
\* cleanup pass, which removes the entries that have expired), so check(name) of
\* a previously uncached name still returns nothing.
C7_FailedLookupNoChange ==
  \A t \in Tasks :
    /\ pc[t] = "returned" /\ h[t].upstream /\ ret[t].kind # "Ok" =>
         ret[t] = Err /\ ~h[t].wrote
    /\ pc[t] = "returned" /\ ret[t] = Err /\ h[t].quiet /\ lastUpdate[domain[t]] < 0 =>
         check_cache(records, domain[t], now) = None

C7_Witness ==
  \E t \in Tasks :
    /\ pc[t] = "returned" /\ ret[t] = Err /\ h[t].upstream
    /\ h[t].evicted
    /\ DOMAIN records # {}

\* C8: presence implies at least one address.  Every entry of the map has a
\* non-empty address list (update_cache is never given an empty one), and
\* check_cache never returns an empty list, after any interleaving of resolve
\* calls, upstream lookups that succeed with an empty result included.
C8_PresenceImpliesAddress ==
  /\ \A n \in DOMAIN records : records[n].ip # <<>>
  /\ \A t \in Tasks : chk[t].some => chk[t].ip # <<>>
  /\ \A t \in Tasks : h[t].wrote => ret[t].ip # <<>>

C8_Witness ==
  /\ DOMAIN records # {}
  /\ \E t \in Tasks : pc[t] = "returned" /\ h[t].upstream /\ ret[t] = Ok(<<>>)
  /\ \E t \in Tasks : pc[t] = "checked" /\ chk[t].some


(***************************************************************************)
(* Properties of the relay                                                 *)
(***************************************************************************)
IsPrefix(a, b) == Len(a) <= Len(b) /\ Prefix(b, Len(a)) = a

\* the handler of c has ended, and not on an I/O error of the relay
Ended(c) == hpc[c] = "done" /\ hres[c] # "IoError"

\* C1: raw-mode round trip.  A client of the running tunnel that sends the
\* newline-terminated ip:port of the live echo server and then its payload
\* receives exactly the payload echoed back: when its session has ended, what
\* it has received is the payload.
C1_RawRoundTrip ==
  \A c \in Conns :
    kind[c] = "raw_nl" /\ via[c] = "handle_tcp" /\ Ended(c) => recv[c] = Payload

\* C2: CONNECT-mode round trip.  A client of the running tunnel that sends
\* CONNECT ip:port HTTP/1.1 naming the live echo server receives the 200
\* response before anything else: when its session has ended, what it has
\* received starts with the response.
C2_ConnectRoundTrip ==
  \A c \in Conns :
    kind[c] = "connect" /\ via[c] = "handle_tcp" /\ Ended(c) => IsPrefix(Response, recv[c])

\* everything the model keeps about connection d
ConnState(d) ==
  <<kind[d], toSend[d], cEOF[d], recv[d], via[d], hpc[d], hres[d], c2p[d],
    first[d], dest[d], dialed[d], csock[d], tsock[d], echo[d], p2t[d], t2p[d],
    fwd[d], undrained[d]>>

HandlerFailures == {"InvalidData", "InvalidInput", "ConnectError", "IoError", "panic"}

\* C9: accept-loop isolation.  run() has returned only if accept itself failed,
\* and a step in which a handler fails (protocol error, dial error, relay I/O
\* error) leaves run()'s loop and every other connection as they were.
C9_AcceptLoopIsolation ==
  /\ [](run = "returned_err" => lastAccept = "Err")
  /\ [][\A c \in Conns :
          hpc[c] # "done" /\ hpc'[c] = "done" /\ hres'[c] \in HandlerFailures =>
            /\ run' = run
            /\ \A d \in Conns \ {c} : ConnState(d)' = ConnState(d)]_vars

\* a handler failed, another connection was relayed to its end, and run()
\* returned because accept failed
C9_Witness ==
  \E c, d \in Conns :
    /\ c # d
    /\ via[c] = "handle_tcp" /\ hpc[c] = "done" /\ hres[c] \in HandlerFailures
    /\ via[d] = "handle_tcp" /\ hpc[d] = "done" /\ hres[d] = "Ok" /\ recv[d] = Payload
    /\ run = "returned_err" /\ lastAccept = "Err"

\* the texts that are a socket address: an IP literal, ":", a port
SocketAddrTexts == {<<i, ":", p>> : i \in IpLiterals, p \in PortLiterals}

\* the request line of a text: what precedes its first "\n"
RequestLine(b) ==
  LET ends == {i \in 1..Len(b) : b[i] = "\n"} IN
    IF ends = {} THEN b
    ELSE Prefix(b, (CHOOSE i \in ends : \A j \in ends : i <= j) - 1)

\* the positions where a whitespace-delimited token starts
TokenStarts(line) ==
  {i \in 1..Len(line) :
     line[i] \notin Whitespace /\ (i = 1 \/ line[i - 1] \in Whitespace)}

\* the handler of c has read a first PDU that is malformed: in raw mode bytes
\* that are not a socket address, in CONNECT mode a text whose request line has
\* no second whitespace-delimited token
MalformedFirstPDU(c) ==
  /\ hpc[c] \notin {"none", "read"}
  /\ first[c] # <<>>
  /\ \/ via[c] = "handle_tcp" /\ first[c] \notin SocketAddrTexts
     \/ /\ via[c] = "handle_http_connect"
        /\ \A i \in 1..Len(first[c]) : first[c][i] # "xFF"
        /\ Cardinality(TokenStarts(RequestLine(first[c]))) < 2

DialFailed(c) == dialed[c] /\ dest[c] # Addr

\* C11: dial failure.  When the outbound connect fails the handler has ended
\* with the connect error, the client connection is closed, no outbound socket
\* exists, and the client has been written nothing, neither a success response
\* nor a relayed byte; a handler that has ended stays ended (no retry, nothing
\* more is written to the client); and in CONNECT mode the client has the 200
\* response only after a dial that succeeded.
C11_DialFailure ==
  /\ [](\A c \in Conns :
         DialFailed(c) =>
           /\ hpc[c] = "done" /\ hres[c] = "ConnectError"
           /\ csock[c] = "closed" /\ tsock[c] = "none"
           /\ recv[c] = <<>> /\ fwd[c] = <<>>)
  /\ [](\A c \in Conns :
         via[c] = "handle_http_connect" /\ recv[c] # <<>> =>
           dialed[c] /\ dest[c] = Addr /\ IsPrefix(Response, recv[c]))
  /\ [][\A c \in Conns :
          hpc[c] = "done" =>
            hpc'[c] = "done" /\ dialed'[c] = dialed[c] /\ recv'[c] = recv[c]]_vars

\* a dial has failed in each of the two handlers
C11_Witness ==
  \E c, d \in Conns :
    /\ via[c] = "handle_tcp" /\ DialFailed(c) /\ first[c] = DeadAddr
    /\ via[d] = "handle_http_connect" /\ DialFailed(d)
    /\ first[d] = ConnectRequest(DeadAddr)
    /\ hpc[c] = "done" /\ hpc[d] = "done"

\* C12 as stated: when the outbound dial fails, a CONNECT-mode client has been
\* answered with an error status when its connection is closed, and a raw-mode
\* client has been written nothing.
C12_DialFailureReply_AsStated ==
  \A c \in Conns :
    hres[c] = "ConnectError" =>
      /\ csock[c] = "closed"
      /\ via[c] = "handle_http_connect" => recv[c] # <<>> /\ ~IsPrefix(Response, recv[c])
      /\ via[c] = "handle_tcp" => recv[c] = <<>>

\* C12 (amended): when the outbound dial fails the client connection is dropped
\* without any response in both modes: a CONNECT-mode client is written no
\* status line, neither the success response nor an error status, exactly as a
\* raw-mode client is written nothing.
C12_DialFailureReply ==
  \A c \in Conns :
    hres[c] = "ConnectError" =>
      /\ csock[c] = "closed"
      /\ via[c] \in {"handle_http_connect", "handle_tcp"}
      /\ recv[c] = <<>>

\* a CONNECT request for a dead target has been dropped without a response
C12_Witness ==
  \E c \in Conns :
    /\ via[c] = "handle_http_connect" /\ kind[c] = "connect_dead"
    /\ dest[c] = DeadAddr /\ hres[c] = "ConnectError"
    /\ csock[c] = "closed" /\ recv[c] = <<>>

\* C13: asymmetric relay teardown.  The step in which one copy direction
\* finishes (end of file or error) ends the handler: both sockets are closed
\* and what the other direction had still to relay is abandoned, neither
\* delivered to the client nor written to the target, then or later.  The
\* handler can end as soon as one direction is at its end of file, whatever
\* the state of the other, and a client that has closed its write side while
\* the handler relays leads to the end of the handler.
C13_AsymmetricTeardown ==
  /\ [][\A c \in Conns :
          hpc[c] = "relay" /\ hpc'[c] = "done" =>
            /\ csock'[c] = "closed" /\ tsock'[c] = "closed"
            /\ undrained'[c] = [c2t |-> c2p[c], t2c |-> t2p[c]]
            /\ c2p'[c] = <<>> /\ t2p'[c] = <<>>
            /\ recv'[c] = recv[c] /\ fwd'[c] = fwd[c]]_vars
  /\ [][\A c \in Conns :
          hpc[c] = "done" => hpc'[c] = "done" /\ recv'[c] = recv[c] /\ fwd'[c] = fwd[c]]_vars
  /\ [](\A c \in Conns :
         hpc[c] = "relay" =>
           /\ client_to_server_done(c) => ENABLED ClientToServerEOF(c)
           /\ server_to_client_done(c) => ENABLED ServerToClientEOF(c))
  /\ \A c \in Conns : (hpc[c] = "relay" /\ cEOF[c]) ~> (hpc[c] = "done")

\* the client closed its write side and the handler ended at that end of file
\* while the echo of the payload was still waiting to be relayed to the client
C13_Witness ==
  \E c \in Conns :
    /\ kind[c] = "raw_close" /\ cEOF[c]
    /\ hpc[c] = "done" /\ hres[c] = "Ok"
    /\ csock[c] = "closed" /\ tsock[c] = "closed"
    /\ fwd[c] = Payload
    /\ undrained[c].t2c = Payload
    /\ recv[c] = <<>>

\* the first read of the handler of c returned zero bytes: the handler has
\* ended without having read anything
ZeroByteFirstRead(c) == via[c] # "none" /\ hpc[c] = "done" /\ first[c] = <<>>

\* C14: in either framing mode, a first read that returns zero bytes ends the
\* handler successfully (Ok), with no outbound connection and no write to the
\* client.
C14_ZeroByteFirstRead ==
  \A c \in Conns :
    ZeroByteFirstRead(c) =>
      /\ hres[c] = "Ok"
      /\ ~dialed[c] /\ tsock[c] = "none"
      /\ recv[c] = <<>>

\* the destination a handler makes of its first read
ParsedDest(c) ==
  IF via[c] = "handle_tcp" THEN parse_socket_addr(first[c])
  ELSE parse_http_connect_request(first[c])

\* the steps of a handler, in the order in which it may take them
StepOrder(v) ==
  {<<"none", "read">>, <<"read", "dial">>, <<"read", "done">>, <<"dial", "done">>,
   <<"relay", "done">>}
  \cup (IF v = "handle_tcp" THEN {<<"dial", "relay">>}
        ELSE {<<"dial", "respond">>, <<"respond", "relay">>, <<"respond", "done">>})

\* C16: per-connection step order.  A handler moves only forward through read
\* and parse, dial, (response,) relay; a dial has been made only for the
\* destination parsed from the first read; relaying, in either direction,
\* happens only after a dial that succeeded; in CONNECT mode the client has
\* the fixed response from the moment relaying starts and before any relayed
\* byte in either direction; in raw mode nothing is written to the client
\* before relaying, and only relayed bytes after.
C16_StepOrder ==
  /\ [][\A c \in Conns :
          hpc'[c] # hpc[c] => <<hpc[c], hpc'[c]>> \in StepOrder(via'[c])]_vars
  /\ [](\A c \in Conns :
         dialed[c] =>
           first[c] # <<>> /\ ParsedDest(c).ok /\ dest[c] = ParsedDest(c).addr)
  /\ [](\A c \in Conns :
         hpc[c] \in {"respond", "relay"} \/ fwd[c] # <<>> \/ recv[c] # <<>>
           => dialed[c] /\ dest[c] = Addr /\ tsock[c] # "none")
  /\ [](\A c \in Conns :
         via[c] = "handle_http_connect"
           /\ (hpc[c] = "relay" \/ fwd[c] # <<>> \/ recv[c] # <<>>)
           => IsPrefix(Response, recv[c]))
  /\ [](\A c \in Conns :
         via[c] = "handle_tcp" =>
           /\ hpc[c] \in {"read", "dial"} => recv[c] = <<>>
           /\ IsPrefix(recv[c], fwd[c]))

\* a CONNECT session and a raw session have both run through all their steps
C16_Witness ==
  \E c, d \in Conns :
    /\ via[c] = "handle_http_connect" /\ hpc[c] = "done" /\ hres[c] = "Ok"
    /\ fwd[c] = Payload /\ recv[c] = Response \o Payload
    /\ via[d] = "handle_tcp" /\ hpc[d] = "done" /\ hres[d] = "Ok"
    /\ fwd[d] = Payload /\ recv[d] = Payload

RECURSIVE Concat(_)
Concat(ws) == IF ws = <<>> THEN <<>> ELSE Head(ws) \o Concat(Tail(ws))

\* every byte the client of c has written so far, in order
Sent(c) ==
  IF kind[c] = "none" THEN <<>>
  ELSE LET ws == Scenarios[kind[c]].writes IN
         Concat(Prefix(ws, Len(ws) - Len(toSend[c])))

\* C20: the bytes of the first read are never forwarded.  From its first read
\* to its end, what a handler has read first, then what it has written to the
\* target, then what it has not read yet, is exactly what the client has
\* written, in order: the target is written the bytes read after the first
\* read, unmodified, and none of the first read, whatever payload or header
\* bytes the first read held after the destination; bytes are written to the
\* target only while relaying, after the dial.
C20_FirstReadNotForwarded ==
  /\ [](\A c \in Conns :
         hpc[c] \in {"dial", "respond", "relay"} =>
           first[c] \o fwd[c] \o c2p[c] = Sent(c))
  /\ [](\A c \in Conns :
         hpc[c] = "done" =>
           /\ IsPrefix(first[c] \o fwd[c], Sent(c))
           /\ fwd[c] # <<>> => first[c] \o fwd[c] \o undrained[c].c2t = Sent(c))
  /\ [](\A c \in Conns : ~dialed[c] => fwd[c] = <<>>)
  /\ [][\A c \in Conns :
          fwd'[c] # fwd[c] =>
            hpc[c] = "relay" /\ dialed[c] /\ fwd'[c] = fwd[c] \o c2p[c]]_vars

\* a first read held the CONNECT request and the payload behind it: the client
\* has its response and the target has been sent nothing; on another
\* connection the payload came after the first read and was forwarded
C20_Witness ==
  \E c, d \in Conns :
    /\ via[c] = "handle_http_connect" /\ first[c] = ConnectRequest(Addr) \o Payload
    /\ hpc[c] = "relay" /\ recv[c] = Response
    /\ fwd[c] = <<>> /\ c2p[c] = <<>> /\ toSend[c] = <<>>
    /\ first[d] = Addr /\ fwd[d] = Payload

(***************************************************************************)
(* Further properties of the cache                                         *)
(***************************************************************************)
\* the N calls made so far on the cache that started empty are one
\* resolve_domain of the same name n by each of the N tasks, all have returned,
\* and some may have gone on to check_cache(n)
SameNameAllDone(n) ==
  /\ ncalls = NumTasks
  /\ \A t \in Tasks :
       /\ domain[t] = n
       /\ \/ pc[t] = "returned"
          \/ pc[t] = "checked" /\ h[t].follows

\* C15 as stated: after N concurrent resolve_domain calls for the same uncached
\* name have all completed, the calls returned one and the same address list,
\* check_cache(name) returns that list (the first-spawned call's result), and
\* the map has exactly one entry.
C15_ResolutionsAgreeWithCache_AsStated ==
  \A n \in Names :
    SameNameAllDone(n) =>
      /\ \A t \in Tasks : ret[t] = ret[1]
      /\ \A t \in Tasks : pc[t] = "checked" /\ h[t].afterAll => chk[t] = Some(ret[1].ip)
      /\ Cardinality(DOMAIN records) = 1

\* C15 (amended): after N concurrent resolve_domain calls for the same uncached
\* name have all completed, if all of them returned the same non-empty address
\* list, the map has exactly one entry, for that name and with that list, and
\* check_cache(name) returns that list for as long as the entry has not
\* expired (and nothing once it has).
C15_ResolutionsAgreeWithCache ==
  \A n \in Names :
    SameNameAllDone(n) /\ (\A t \in Tasks : NonEmptyOk(ret[t]) /\ ret[t] = ret[1]) =>
      /\ DOMAIN records = {n}
      /\ records[n].ip = ret[1].ip
      /\ \A t \in Tasks :
           pc[t] = "checked" /\ h[t].afterAll =>
             /\ chk[t] \in {Some(ret[1].ip), None}
             /\ h[t].inWin => chk[t] = Some(ret[1].ip)

\* every call made its own upstream lookup, all got the same list, and every
\* task then found that list in the cache
C15_Witness ==
  \E n \in Names :
    /\ SameNameAllDone(n)
    /\ \A t \in Tasks : NonEmptyOk(ret[t]) /\ ret[t] = ret[1] /\ h[t].upstream
    /\ \A t \in Tasks : pc[t] = "checked" /\ h[t].afterAll /\ chk[t] = Some(ret[1].ip)
    /\ DOMAIN records = {n}

\* the step is task t's resolve_domain returning a non-empty upstream answer
UpdateStep(t) ==
  pc[t] = "lookup" /\ pc'[t] = "returned" /\ NonEmptyOk(ret'[t])

\* the entry update_cache writes for what task t returns
Written(t) == [ip |-> ret'[t].ip, valid_until |-> now + ttl]

\* C17: no single-flight, last writer wins.  Every resolve call that returns a
\* non-empty upstream answer overwrites the entry of its name, whatever it
\* finds there, with that answer and the expiry now + ttl, and leaves the other
\* entries alone; an entry appears or changes in no other way; the expiry of
\* every entry is that of the last update of its name; and once N calls for
\* the same uncached name have completed, each having got a non-empty answer
\* if it reached the upstream service, the entry is the one written by a call
\* whose update was the last.
C17_LastWriterWins ==
  /\ [][\A t \in Tasks :
          UpdateStep(t) =>
            records' = [n \in DOMAIN records \cup {domain[t]} |->
                          IF n = domain[t] THEN Written(t) ELSE records[n]]]_vars
  /\ [][\A n \in DOMAIN records' :
          n \notin DOMAIN records \/ records'[n] # records[n] =>
            \E t \in Tasks : UpdateStep(t) /\ domain[t] = n /\ records'[n] = Written(t)]_vars
  /\ [](\A n \in DOMAIN records : records[n].valid_until = lastUpdate[n] + ttl)
  /\ [](\A n \in Names :
         SameNameDone(n) /\ (\A t \in Tasks : h[t].upstream => NonEmptyOk(ret[t])) =>
           \E t \in Tasks :
             /\ h[t].upstream
             /\ records[n] = [ip |-> ret[t].ip, valid_until |-> h[t].winEnd]
             /\ \A u \in Tasks : h[u].upstream => h[u].winEnd <= h[t].winEnd)

\* two calls for the same name each reached the upstream service and got
\* different answers; the entry is that of the later update
C17_Witness ==
  \E n \in Names : \E t, u \in Tasks :
    /\ SameNameDone(n)
    /\ h[t].upstream /\ h[u].upstream
    /\ NonEmptyOk(ret[t]) /\ NonEmptyOk(ret[u]) /\ ret[t].ip # ret[u].ip
    /\ h[u].winEnd < h[t].winEnd
    /\ records[n] = [ip |-> ret[t].ip, valid_until |-> h[t].winEnd]

\* C18: the cache lock is never held across the upstream resolution call.  In
\* every reachable state in which a task is waiting for its upstream lookup,
\* that task holds neither the read nor the write lock, and the steps of the
\* other tasks that take the lock (the cleanup pass and the check of a
\* resolve, the update after a lookup, a check_cache or a
\* cleanup_expired_records call of their own) can be taken.
C18_NoLockAcrossLookup ==
  \A t \in Tasks :
    pc[t] = "lookup" =>
      /\ lock[t] = "none"
      /\ \A u \in Tasks \ {t} :
           /\ pc[u] = "cleanup" => ENABLED ResolveCleanup(u)
           /\ pc[u] = "check" => ENABLED ResolveCheck(u)
           /\ pc[u] = "lookup" => ENABLED LookupOk(u, <<"a">>)
           /\ pc[u] = "returned" => ENABLED CallCheck(u, domain[u])
           /\ pc[u] = "idle" /\ ncalls < MaxCalls =>
                ENABLED CallCheck(u, 1) /\ ENABLED CallCleanup(u)

\* task t is waiting for its upstream lookup of a name for which task u has
\* meanwhile completed a resolve: u's entry has not expired, so t's check, which
\* missed, came before u's update, which took the write lock while t waited
C18_Witness ==
  \E t, u \in Tasks :
    /\ t # u
    /\ pc[t] = "lookup" /\ lock[t] = "none"
    /\ pc[u] = "returned" /\ domain[u] = domain[t]
    /\ h[u].upstream /\ h[u].wrote
    /\ now < h[u].winEnd

\* the step is a cleanup pass of task t: the one its resolve_domain starts with,
\* or a cleanup_expired_records call of its own
CleanupStep(t) ==
  \/ pc[t] = "cleanup" /\ pc'[t] = "check"
  \/ pc[t] = "idle" /\ pc'[t] = "cleaned"

\* the step is one of task t's resolve_domain
ResolveStep(t) == pc[t] \in {"cleanup", "check", "lookup"} /\ pc'[t] # pc[t]

\* C19: the cleanup pass never removes or alters a fresh entry.  A cleanup pass
\* keeps every entry with valid_until > now, with the same addresses and the
\* same expiry, removes every entry with valid_until <= now, and adds none; no
\* step of a resolve of one name turns a hit of check_cache for another name
\* into a miss; and at any instant an entry of the map is either returned by
\* check_cache or removed by cleanup, never both and never neither.
C19_CleanupFrame ==
  /\ [][\A t \in Tasks :
          CleanupStep(t) =>
            /\ DOMAIN records' \subseteq DOMAIN records
            /\ \A n \in DOMAIN records :
                 IF records[n].valid_until > now
                   THEN n \in DOMAIN records' /\ records'[n] = records[n]
                   ELSE n \notin DOMAIN records']_vars
  /\ [][\A t \in Tasks :
          ResolveStep(t) =>
            \A n \in Names \ {domain[t]} :
              check_cache(records, n, now).some =>
                check_cache(records', n, now') = check_cache(records, n, now)]_vars
  /\ [](\A n \in DOMAIN records :
         check_cache(records, n, now).some
           <=> n \in DOMAIN cleanup_expired_records(records, now))

\* task u had resolved a name, and then the cleanup pass of task t removed an
\* expired entry and kept u's entry, which is still fresh
C19_Witness ==
  \E t, u \in Tasks :
    /\ t # u
    /\ pc[t] \in {"check", "cleaned"} /\ h[t].evicted /\ h[t].at = now
    /\ pc[u] = "returned" /\ h[u].wrote /\ ~h[u].quiet
    /\ domain[u] \in DOMAIN records
    /\ records[domain[u]].valid_until > now
    /\ check_cache(records, domain[u], now) = Some(ret[u].ip)

====
